---- MODULE Spec2Model ----
(***************************************************************************)
(* A model of the FinQ4Cn MCP server: the tools registered in              *)
(* mcp-server/fs_server.py and the query operations of                     *)
(* StocksCommonMetrics in mcp-server/utils/stocks_common_metrics.py.       *)
(*                                                                         *)
(* The server handles one tool call at a time.  A call fetches tables      *)
(* from the external market-data source (akshare), whose answer is a       *)
(* nondeterministic choice among an error, an empty table and tables of    *)
(* rows; the operation renames the columns and returns records, or ends    *)
(* with the exception that escaped it.                                     *)
(*                                                                         *)
(* Strings that the code parses or matches (dates, company names, regular  *)
(* expressions) are sequences of one-character strings.  The Chinese       *)
(* column names of the source are written in pinyin, since the module is   *)
(* ASCII; each mapping table gives the original in a comment.              *)
(***************************************************************************)
EXTENDS Integers, Sequences, FiniteSets, TLC

VARIABLES
    pc,         \* "idle" | "margin" (inside get_stock_margin_detail's loop) | "done"
    call,       \* the tool call being served
    outcome,    \* "none" | "ok" | "error": how the call ended
    error,      \* the exception that escaped the call ("" when none)
    result,     \* the sequence of records the call returned
    fetches,    \* the external calls of this invocation, in order
    todo,       \* get_stock_margin_detail: the dates still to enumerate
    all_filtered_df, \* get_stock_margin_detail: the accumulator
    source,     \* what the external source has answered, per request
    previous    \* the call before this one and its answer, when the caller
                \* kept them to ask the same again

vars == <<pc, call, outcome, error, result, fetches, todo, all_filtered_df,
          source, previous>>

(***************************************************************************)
(* Bounds of the model.                                                    *)
(***************************************************************************)
\* The number of calendar days the date inputs are drawn from.
MaxDays == 3

(***************************************************************************)
(* Characters, digits and the calendar (what pandas' date parsing,         *)
(* date_range and strftime compute).                                       *)
(***************************************************************************)
Digits == <<"0", "1", "2", "3", "4", "5", "6", "7", "8", "9">>

IsDigit(c) == \E i \in 1..10 : Digits[i] = c

DigitVal(c) == (CHOOSE i \in 1..10 : Digits[i] = c) - 1

AllDigits(s) == \A i \in 1..Len(s) : IsDigit(s[i])

RECURSIVE NumVal(_)
NumVal(s) ==
    IF s = <<>> THEN 0
    ELSE 10 * NumVal(SubSeq(s, 1, Len(s) - 1)) + DigitVal(s[Len(s)])

\* n written with exactly w digits, zero padded (strftime's %Y, %m, %d).
RECURSIVE Pad(_, _)
Pad(n, w) ==
    IF w = 0 THEN <<>> ELSE Append(Pad(n \div 10, w - 1), Digits[(n % 10) + 1])

IsLeap(y) == (y % 4 = 0 /\ y % 100 # 0) \/ y % 400 = 0

DaysInMonth(y, m) ==
    IF m = 2 THEN (IF IsLeap(y) THEN 29 ELSE 28)
    ELSE IF m \in {4, 6, 9, 11} THEN 30 ELSE 31

DaysBeforeYear(y) ==
    365 * (y - 1) + ((y - 1) \div 4) - ((y - 1) \div 100) + ((y - 1) \div 400)

RECURSIVE DaysBeforeMonth(_, _)
DaysBeforeMonth(y, m) ==
    IF m = 1 THEN 0 ELSE DaysBeforeMonth(y, m - 1) + DaysInMonth(y, m - 1)

ValidYMD(y, m, d) ==
    /\ y >= 1
    /\ m \in 1..12
    /\ d >= 1
    /\ d <= DaysInMonth(y, m)

\* The proleptic Gregorian ordinal of a day: 0001-01-01 is day 1.
Ordinal(y, m, d) == DaysBeforeYear(y) + DaysBeforeMonth(y, m) + d

YearOf(o) ==
    CHOOSE y \in (o \div 366)..((o \div 365) + 1) :
        DaysBeforeYear(y) < o /\ o <= DaysBeforeYear(y + 1)

MonthOf(o) ==
    LET y == YearOf(o)
        r == o - DaysBeforeYear(y)
    IN  CHOOSE m \in 1..12 :
            DaysBeforeMonth(y, m) < r /\ r <= DaysBeforeMonth(y, m) + DaysInMonth(y, m)

DayOf(o) ==
    LET y == YearOf(o)
    IN  o - DaysBeforeYear(y) - DaysBeforeMonth(y, MonthOf(o))

\* Monday is 0 and Sunday is 6.
Weekday(o) == (o + 6) % 7

\* date.strftime('%Y%m%d')
strftime_Ymd(o) == Pad(YearOf(o), 4) \o Pad(MonthOf(o), 2) \o Pad(DayOf(o), 2)

\* strftime("%Y-%m-%d")
strftime_Y_m_d(o) ==
    Pad(YearOf(o), 4) \o <<"-">> \o Pad(MonthOf(o), 2) \o <<"-">> \o Pad(DayOf(o), 2)

\* The day a date string names, as pandas parses the start and the end of a
\* date_range: YYYYMMDD or YYYY-MM-DD; -1 when the string names no day (pandas
\* raises a ValueError).
ParseTimestamp(s) ==
    LET plain  == Len(s) = 8 /\ AllDigits(s)
        dashed == /\ Len(s) = 10
                  /\ s[5] = "-"
                  /\ s[8] = "-"
                  /\ AllDigits(SubSeq(s, 1, 4) \o SubSeq(s, 6, 7) \o SubSeq(s, 9, 10))
        y == NumVal(SubSeq(s, 1, 4))
        m == IF plain THEN NumVal(SubSeq(s, 5, 6)) ELSE NumVal(SubSeq(s, 6, 7))
        d == IF plain THEN NumVal(SubSeq(s, 7, 8)) ELSE NumVal(SubSeq(s, 9, 10))
    IN  IF (plain \/ dashed) /\ ValidYMD(y, m, d) THEN Ordinal(y, m, d) ELSE -1

\* The days lo..hi that freq keeps, ascending: every day for "D", the Sundays
\* for "W".
RECURSIVE DaysFrom(_, _, _)
DaysFrom(lo, hi, freq) ==
    IF lo > hi THEN <<>>
    ELSE (IF freq = "D" \/ Weekday(lo) = 6 THEN <<lo>> ELSE <<>>)
         \o DaysFrom(lo + 1, hi, freq)

\* pd.date_range(start=start_date, end=end_date, freq=freq)
date_range(start_date, end_date, freq) ==
    DaysFrom(ParseTimestamp(start_date), ParseTimestamp(end_date), freq)

RECURSIVE Join(_)
Join(s) == IF s = <<>> THEN "" ELSE Head(s) \o Join(Tail(s))

(***************************************************************************)
(* Tables (pandas DataFrames): a set of column names and a sequence of     *)
(* rows, each row a function from the columns to values.  Values are       *)
(* strings; "NaN" is pandas' missing value.                                *)
(***************************************************************************)
\* pd.DataFrame()
EmptyDataFrame == [columns |-> {}, rows |-> <<>>]

\* df.empty
IsEmpty(df) == df.rows = <<>> \/ df.columns = {}

\* A column mapping is the dict literal as a sequence of <<key, value>> pairs.
MapKeys(column_mapping) == {column_mapping[i][1] : i \in 1..Len(column_mapping)}

MapValues(column_mapping) == {column_mapping[i][2] : i \in 1..Len(column_mapping)}

Renamed(column_mapping, c) ==
    IF c \in MapKeys(column_mapping)
    THEN column_mapping[CHOOSE i \in 1..Len(column_mapping) : column_mapping[i][1] = c][2]
    ELSE c

RenameRow(column_mapping, row) ==
    [k \in {Renamed(column_mapping, c) : c \in DOMAIN row} |->
        row[CHOOSE c \in DOMAIN row : Renamed(column_mapping, c) = k]]

\* df.rename(columns=column_mapping, inplace=True): a column the mapping does
\* not name keeps its name.
rename(df, column_mapping) ==
    [columns |-> {Renamed(column_mapping, c) : c \in df.columns},
     rows    |-> [i \in 1..Len(df.rows) |-> RenameRow(column_mapping, df.rows[i])]]

Reindexed(row, columns) ==
    [c \in columns |-> IF c \in DOMAIN row THEN row[c] ELSE "NaN"]

\* pd.concat([a, b], ignore_index=True): the union of the columns, the rows of
\* a then those of b, a missing cell filled with NaN.
concat(a, b) ==
    LET columns == a.columns \cup b.columns
    IN  [columns |-> columns,
         rows    |-> [i \in 1..Len(a.rows) |-> Reindexed(a.rows[i], columns)]
                     \o [i \in 1..Len(b.rows) |-> Reindexed(b.rows[i], columns)]]

\* df.to_dict(orient="records")
to_dict(df) == df.rows

(***************************************************************************)
(* The external source's answer to one fetch.                              *)
(***************************************************************************)
Raises(exc) == [kind |-> "raise", exc |-> exc, df |-> EmptyDataFrame]

ReturnsNone == [kind |-> "none", exc |-> "", df |-> EmptyDataFrame]

Returns(df) == [kind |-> "table", exc |-> "", df |-> df]

TableOf(rows) ==
    [columns |-> IF rows = <<>> THEN {} ELSE DOMAIN rows[1], rows |-> rows]

StockCodes == {"600000", "600001"}

(***************************************************************************)
(* get_stock_margin_detail                                                 *)
(***************************************************************************)
\* column_mapping of get_stock_margin_detail.  The keys are, in order:
\* 信用交易日期, 标的证券代码, 标的证券简称, 融资余额, 融资买入额, 融资偿还额,
\* 融券余量, 融券卖出量, 融券偿还量.
\* A mutant of margin_column_mapping: 融资余额 and 融资买入额 are given the same
\* canonical name.
margin_column_mapping_SharedName ==
    << <<"xinyongjiaoyiriqi", "trading_date">>,
       <<"biaodizhengquandaima", "target_security_code">>,
       <<"biaodizhengquanjiancheng", "target_security_name">>,
       <<"rongziyue", "margin_balance">>,
       <<"rongzimairue", "margin_balance">>,
       <<"rongzichanghuane", "margin_repayment">>,
       <<"rongquanyuliang", "short_selling_balance">>,
       <<"rongquanmaichuliang", "short_selling_volume">>,
       <<"rongquanchanghuanliang", "short_selling_repayment">> >>

margin_column_mapping ==
    << <<"xinyongjiaoyiriqi", "trading_date">>,
       <<"biaodizhengquandaima", "target_security_code">>,
       <<"biaodizhengquanjiancheng", "target_security_name">>,
       <<"rongziyue", "margin_balance">>,
       <<"rongzimairue", "margin_buy_amount">>,
       <<"rongzichanghuane", "margin_repayment">>,
       <<"rongquanyuliang", "short_selling_balance">>,
       <<"rongquanmaichuliang", "short_selling_volume">>,
       <<"rongquanchanghuanliang", "short_selling_repayment">> >>

\* A row of ak.stock_margin_detail_sse(date=data_date) for one security.
\* A row of the source with every key of a column mapping and a different
\* number in each cell: the position of the column.
NumberedRow(column_mapping, first_key, first_value) ==
    [c \in MapKeys(column_mapping) |->
        IF c = first_key THEN first_value
        ELSE LET p == CHOOSE i \in 1..Len(column_mapping) : column_mapping[i][1] = c
             IN  IF p < 10 THEN Digits[p + 1] ELSE Join(Pad(p, 2))]

MarginRow(data_date, code, balance) ==
    [c \in MapKeys(margin_column_mapping) |->
        IF c = "xinyongjiaoyiriqi" THEN Join(data_date)
        ELSE IF c = "biaodizhengquandaima" THEN code
        ELSE IF c = "biaodizhengquanjiancheng" THEN "name" \o code
        ELSE IF c = "rongziyue" THEN balance
        ELSE "0"]

\* The same row with a column the mapping does not name (备注, a remark).
MarginRowExtra(data_date, code, balance) ==
    [c \in MapKeys(margin_column_mapping) \cup {"beizhu"} |->
        IF c = "beizhu" THEN "remark" ELSE MarginRow(data_date, code, balance)[c]]

\* The same row without the security-code column.
MarginRowNoCode(data_date, balance) ==
    [c \in MapKeys(margin_column_mapping) \ {"biaodizhengquandaima"} |->
        MarginRow(data_date, "600000", balance)[c]]

\* What ak.stock_margin_detail_sse(date=data_date) may answer.
MarginResponses(data_date) ==
    { Raises("ConnectionError"),
      ReturnsNone,
      Returns(EmptyDataFrame),
      Returns(TableOf(<<MarginRow(data_date, "600000", "1")>>)),
      Returns(TableOf(<<MarginRow(data_date, "600001", "1")>>)),
      Returns(TableOf(<<MarginRow(data_date, "600000", "2"),
                        MarginRow(data_date, "600001", "1"),
                        MarginRow(data_date, "600000", "1")>>)),
      Returns(TableOf(<<[NumberedRow(margin_column_mapping, "xinyongjiaoyiriqi",
                                     Join(data_date))
                             EXCEPT !["biaodizhengquandaima"] = "600000"]>>)),
      Returns(TableOf(<<MarginRowExtra(data_date, "600000", "1")>>)),
      Returns(TableOf(<<MarginRowNoCode(data_date, "1")>>)) }

\* A mutant of FilterByCode: the table is taken whole.
FilterByCode_Unfiltered(df, stock_code) == df

\* stock_margin_detail_sse_df[stock_margin_detail_sse_df['标的证券代码'] == stock_code].copy()
FilterByCode(df, stock_code) ==
    [columns |-> df.columns,
     rows    |-> SelectSeq(df.rows, LAMBDA r : r["biaodizhengquandaima"] = stock_code)]

\* A mutant of MarginTry: a date that raises empties the accumulator.
MarginTry_ResetOnError(acc, resp, stock_code) ==
    IF resp.kind = "raise" THEN [raised |-> resp.exc, acc |-> EmptyDataFrame]
    ELSE IF resp.kind = "none" \/ IsEmpty(resp.df) THEN [raised |-> "", acc |-> acc]
    ELSE IF "biaodizhengquandaima" \notin resp.df.columns
         THEN [raised |-> "KeyError", acc |-> EmptyDataFrame]
    ELSE LET filtered_df == FilterByCode(resp.df, stock_code)
         IN  IF IsEmpty(filtered_df) THEN [raised |-> "", acc |-> acc]
             ELSE [raised |-> "",
                   acc |-> concat(acc, rename(filtered_df, margin_column_mapping))]

\* A mutant of MarginTry: a date without rows for the code starts the
\* accumulator afresh.
MarginTry_ForgetsOnNoData(acc, resp, stock_code) ==
    IF resp.kind = "raise" THEN [raised |-> resp.exc, acc |-> acc]
    ELSE IF resp.kind = "none" \/ IsEmpty(resp.df)
         THEN [raised |-> "", acc |-> EmptyDataFrame]
    ELSE IF "biaodizhengquandaima" \notin resp.df.columns
         THEN [raised |-> "KeyError", acc |-> acc]
    ELSE LET filtered_df == FilterByCode(resp.df, stock_code)
         IN  IF IsEmpty(filtered_df) THEN [raised |-> "", acc |-> EmptyDataFrame]
             ELSE [raised |-> "",
                   acc |-> concat(acc, rename(filtered_df, margin_column_mapping))]

\* The body of the try block for one date: the exception it raises ("" when
\* none) and the accumulator it leaves.
MarginTry(acc, resp, stock_code) ==
    IF resp.kind = "raise" THEN [raised |-> resp.exc, acc |-> acc]
    ELSE IF resp.kind = "none" \/ IsEmpty(resp.df) THEN [raised |-> "", acc |-> acc]
    ELSE IF "biaodizhengquandaima" \notin resp.df.columns
         THEN [raised |-> "KeyError", acc |-> acc]
    ELSE LET filtered_df == FilterByCode(resp.df, stock_code)
         IN  IF IsEmpty(filtered_df) THEN [raised |-> "", acc |-> acc]
             ELSE [raised |-> "",
                   acc |-> concat(acc, rename(filtered_df, margin_column_mapping))]

\* A mutant of MarginCatches: except KeyError.
MarginCatches_KeyErrorOnly(exc) == exc = "KeyError"

\* except Exception as e: every exception of the try block is caught.
MarginCatches(exc) == TRUE

(***************************************************************************)
(* The inputs the calls are drawn from.                                    *)
(***************************************************************************)
\* 2023-04-29, a Saturday: the days that follow hold a Sunday and a month end.
FirstDay == Ordinal(2023, 4, 29)

Days == {FirstDay + i : i \in 0..(MaxDays - 1)}

\* An 8-character string that names no day.
MalformedDate == <<"2", "0", "2", "3", "O", "4", "2", "9">>

MarginStartDates ==
    {strftime_Ymd(o) : o \in Days} \cup {strftime_Y_m_d(FirstDay), MalformedDate}

MarginEndDates == {strftime_Ymd(o) : o \in Days}

Freqs == {"D", "W"}

NoCall == [tool |-> "none", args |-> <<>>]

\* No call was kept to be repeated.
NoPrevious == [call |-> NoCall, outcome |-> "none", error |-> "", result |-> <<>>]

\* What the caller may ask: anything, or, having kept a call and its answer,
\* the same call again.
Asked(c) ==
    \/ previous = NoPrevious
    \/ (c.tool = previous.call.tool /\ c.args = previous.call.args)

\* The external source is deterministic: a request it has answered gets the
\* same answer again; another one gets any of the answers it may give.
Answers(api, arg, responses) ==
    IF \E e \in source : e.api = api /\ e.arg = arg
    THEN {e.resp : e \in {x \in source : x.api = api /\ x.arg = arg}}
    ELSE responses

\* The answers of the source after the external calls of log.
Answered(log) == source \cup {log[i] : i \in 1..Len(log)}

Init ==
    /\ pc = "idle"
    /\ call = NoCall
    /\ outcome = "none"
    /\ error = ""
    /\ result = <<>>
    /\ fetches = <<>>
    /\ todo = <<>>
    /\ all_filtered_df = EmptyDataFrame
    /\ source = {}
    /\ previous = NoPrevious

\* A call that ends at once: with the records it returns, or with the
\* exception that escapes it.  Nothing is written on the way out: the
\* accumulator of get_stock_margin_detail is a local the code does not read
\* again, and the next call of that method assigns a new one (line 233).
Finish(c, log, exc, records) ==
    /\ pc' = "done"
    /\ call' = c
    /\ fetches' = log
    /\ outcome' = IF exc = "" THEN "ok" ELSE "error"
    /\ error' = exc
    /\ result' = IF exc = "" THEN records ELSE <<>>
    /\ todo' = <<>>
    /\ source' = Answered(log)
    /\ UNCHANGED <<all_filtered_df, previous>>

\* A mutant of NewAccumulator: the accumulator outlives the call.
NewAccumulator_Kept(left) == left

\* all_filtered_df = pd.DataFrame(): every call of get_stock_margin_detail
\* starts from an empty accumulator, whatever an earlier call left.
NewAccumulator(left) == EmptyDataFrame

\* The tool get_stock_margin_detail and the method it delegates to, up to the
\* loop: the accumulator is created empty and the date range is enumerated; a
\* date string pandas cannot parse raises before the loop.
MarginCall ==
    /\ pc = "idle"
    /\ \E stock_code \in StockCodes, start_date \in MarginStartDates,
          end_date \in MarginEndDates, freq \in Freqs :
          LET c == [tool |-> "get_stock_margin_detail",
                    args |-> [stock_code |-> stock_code, start_date |-> start_date,
                              end_date |-> end_date, freq |-> freq]]
          IN  /\ Asked(c)
              /\ IF ParseTimestamp(start_date) = -1 \/ ParseTimestamp(end_date) = -1
                 THEN Finish(c, <<>>, "ValueError", <<>>)
                 ELSE /\ pc' = "margin"
                      /\ call' = c
                      /\ outcome' = "none"
                      /\ error' = ""
                      /\ result' = <<>>
                      /\ fetches' = <<>>
                      /\ todo' = date_range(start_date, end_date, freq)
                      /\ all_filtered_df' = NewAccumulator(all_filtered_df)
                      /\ UNCHANGED <<source, previous>>

\* A mutant of AfterDate: a date that raised is tried again.
AfterDate_RetryOnError(dates, raised) == IF raised # "" THEN dates ELSE Tail(dates)

\* for date in pd.date_range(...): the loop goes on to the next date after
\* every iteration, also after the continue of the except clause.
AfterDate(dates, raised) == Tail(dates)

\* One iteration of the loop: the fetch for the next date and the try block.
MarginFetch ==
    /\ pc = "margin"
    /\ todo # <<>>
    /\ LET data_date == strftime_Ymd(Head(todo))
       IN  \E resp \in Answers("stock_margin_detail_sse", data_date,
                                MarginResponses(data_date)) :
              LET log == Append(fetches, [api |-> "stock_margin_detail_sse",
                                          arg |-> data_date, resp |-> resp])
                  try == MarginTry(all_filtered_df, resp, call.args.stock_code)
              IN  IF try.raised # "" /\ ~MarginCatches(try.raised)
                  THEN Finish(call, log, try.raised, <<>>)
                  ELSE /\ fetches' = log
                       /\ all_filtered_df' = try.acc
                       /\ todo' = AfterDate(todo, try.raised)
                       /\ source' = Answered(log)
                       /\ UNCHANGED <<pc, call, outcome, error, result, previous>>

\* After the last date: the accumulator is returned as a list of records.
MarginReturn ==
    /\ pc = "margin"
    /\ todo = <<>>
    /\ Finish(call, fetches, "", to_dict(all_filtered_df))

(***************************************************************************)
(* The data-transfer models of utils/modules.py (StockCode,                *)
(* StockPricedata, FinancialAbstract, FhpsDetail, DateValidator).          *)
(***************************************************************************)
\* DateValidator(date=s).validate_date_format(s): s is eight digits.
validate_date_format(s) == Len(s) = 8 /\ AllDigits(s)

\* Model(**row).model_dump(): the declared fields of the model, a field the
\* row lacks left at None; a key the model does not declare is ignored.
model_dump(fields, row) ==
    [f \in fields |-> IF f \in DOMAIN row THEN row[f] ELSE "None"]

\* Model(**row) raises a ValidationError when a required field is missing.
Validates(required, row) == required \subseteq DOMAIN row

\* result.apply(lambda row: Model(**row).model_dump(), axis=1).tolist().
\* On a table without rows pandas calls the function once on a blank row: if
\* that raises, apply returns the table itself, which has no tolist
\* (AttributeError); otherwise it returns an empty Series.
apply_model_dump(df, fields, required) ==
    IF df.rows = <<>>
    THEN (IF required \subseteq df.columns
          THEN [raised |-> "", records |-> <<>>]
          ELSE [raised |-> "AttributeError", records |-> <<>>])
    ELSE IF \E i \in 1..Len(df.rows) : ~Validates(required, df.rows[i])
         THEN [raised |-> "ValidationError", records |-> <<>>]
    ELSE [raised |-> "",
          records |-> [i \in 1..Len(df.rows) |-> model_dump(fields, df.rows[i])]]

\* A row of the source with every key of a column mapping.
FullRow(column_mapping, first_key, first_value) ==
    [c \in MapKeys(column_mapping) |-> IF c = first_key THEN first_value ELSE "1"]

\* A table of the source without rows that has the columns of a mapping.
NoRows(column_mapping) == [columns |-> MapKeys(column_mapping), rows |-> <<>>]

WithExtra(row) == [c \in DOMAIN row \cup {"beizhu"} |-> IF c = "beizhu" THEN "remark" ELSE row[c]]

Without(row, key) == [c \in DOMAIN row \ {key} |-> row[c]]

(***************************************************************************)
(* get_stock_code                                                          *)
(***************************************************************************)
\* The regular expressions of the model: literal characters, ".", "*", a
\* leading "^" and a trailing "$".  "(" opens a group that is never closed.
RECURSIVE matchhere(_, _)
matchhere(regexp, text) ==
    IF regexp = <<>> THEN TRUE
    ELSE IF Len(regexp) >= 2 /\ regexp[2] = "*"
         THEN \E k \in 0..Len(text) :
                 /\ \A i \in 1..k : regexp[1] = "." \/ regexp[1] = text[i]
                 /\ matchhere(SubSeq(regexp, 3, Len(regexp)), SubSeq(text, k + 1, Len(text)))
    ELSE IF regexp = <<"$">> THEN text = <<>>
    ELSE /\ text # <<>>
         /\ regexp[1] = "." \/ regexp[1] = text[1]
         /\ matchhere(Tail(regexp), Tail(text))

\* A mutant of re_search: re.match, which matches at the start only.
re_match(pattern, string) ==
    IF pattern # <<>> /\ pattern[1] = "^" THEN matchhere(Tail(pattern), string)
    ELSE matchhere(pattern, string)

\* re.search(pattern, string) finds a match somewhere in string.
re_search(pattern, string) ==
    IF pattern # <<>> /\ pattern[1] = "^" THEN matchhere(Tail(pattern), string)
    ELSE \E i \in 1..(Len(string) + 1) :
            matchhere(pattern, SubSeq(string, i, Len(string)))

\* re.search raises re.error: an unclosed group, or a "*" with nothing to
\* repeat.
re_error(pattern) ==
    \/ \E i \in 1..Len(pattern) : pattern[i] = "("
    \/ \E i \in 1..Len(pattern) :
          /\ pattern[i] = "*"
          /\ i = 1 \/ pattern[i - 1] \in {"^", "$", "*"}

\* A row of ak.stock_info_a_code_name().
Company(name, code) == [c \in {"name", "code"} |-> IF c = "name" THEN name ELSE code]

Companies ==
    << Company(<<"a", "b">>, "600000"),
       Company(<<"b", "a">>, "600001"),
       Company(<<"b", "b">>, "600002") >>

\* What ak.stock_info_a_code_name() may answer; its tables always have the
\* columns code and name.
StockInfoResponses ==
    { Raises("ConnectionError"),
      Returns([columns |-> {"code", "name"}, rows |-> <<>>]),
      Returns(TableOf(Companies)),
      Returns(TableOf(<<Companies[2]>>)) }

\* The names a caller may pass: "", a, ab, b$, ^b, .b, a*b, c, ( and *a.
Patterns ==
    { <<>>, <<"a">>, <<"a", "b">>, <<"b", "$">>, <<"^", "b">>, <<".", "b">>,
      <<"a", "*", "b">>, <<"c">>, <<"(">>, <<"*", "a">> }

StockCodeFields == {"name", "stock_code"}

\* The method get_stock_code once the source has answered: the exception it
\* raises ("" when none) and the records it returns.
get_stock_code(name, resp) ==
    IF resp.kind = "raise" THEN [raised |-> resp.exc, records |-> <<>>]
    ELSE IF ~({"name", "code"} \subseteq resp.df.columns)
         THEN [raised |-> "KeyError", records |-> <<>>]
    ELSE IF resp.df.rows = <<>> THEN [raised |-> "", records |-> <<>>]
    ELSE IF re_error(name) THEN [raised |-> "re.error", records |-> <<>>]
    ELSE LET found  == SelectSeq(resp.df.rows, LAMBDA item : re_search(name, item["name"]))
             result_rows == [i \in 1..Len(found) |->
                                [k \in {"name", "stock_code"} |->
                                    IF k = "name" THEN found[i]["name"] ELSE found[i]["code"]]]
         IN  [raised |-> "",
              records |-> [i \in 1..Len(result_rows) |->
                              model_dump(StockCodeFields, result_rows[i])]]

\* The tool get_stock_code: the source is asked first, the pattern is used
\* on its rows.
GetStockCode ==
    /\ pc = "idle"
    /\ \E name \in Patterns,
          resp \in Answers("stock_info_a_code_name", <<>>, StockInfoResponses) :
          LET c   == [tool |-> "get_stock_code", args |-> [name |-> name]]
              log == <<[api |-> "stock_info_a_code_name", arg |-> <<>>, resp |-> resp]>>
              out == get_stock_code(name, resp)
          IN  Asked(c) /\ Finish(c, log, out.raised, out.records)

(***************************************************************************)
(* get_historical_stockprice_data                                          *)
(***************************************************************************)
\* column_mapping of get_historical_stockprice_data.  The keys are, in order:
\* 日期, 股票代码, 开盘, 收盘, 最高, 最低, 成交量, 成交额, 振幅, 涨跌幅, 涨跌额, 换手率.
price_column_mapping ==
    << <<"riqi", "date">>,
       <<"gupiaodaima", "stock_code">>,
       <<"kaipan", "open">>,
       <<"shoupan", "close">>,
       <<"zuigao", "high">>,
       <<"zuidi", "low">>,
       <<"chengjiaoliang", "volume">>,
       <<"chengjiaoe", "turnover">>,
       <<"zhenfu", "amplitude">>,
       <<"zhangdiefu", "change_rate">>,
       <<"zhangdiee", "change_amount">>,
       <<"huanshoulv", "turnover_rate">> >>

StockPricedataFields == MapValues(price_column_mapping)

\* A row of ak.stock_zh_a_hist for one day.
PriceRow(day) == FullRow(price_column_mapping, "riqi", Join(strftime_Y_m_d(day)))

\* A row of ak.stock_zh_a_hist for one day with its highest and lowest price
\* (one digit each).
PriceRowHL(day, high, low) ==
    [c \in MapKeys(price_column_mapping) |->
        IF c = "zuigao" THEN high ELSE IF c = "zuidi" THEN low ELSE PriceRow(day)[c]]

\* The price bars of the first and the last day of a range, in ascending
\* order: one bar when the range is a single day.
Bars(lo, hi, first, last) == IF lo = hi THEN <<first>> ELSE <<first, last>>

\* What ak.stock_zh_a_hist(...) may answer for a range from start_date to
\* end_date: an error, pd.DataFrame() (its answer when the source has no
\* price bars for the range), a table without rows, or a table of bars.
\* Nothing in the code depends on what the table holds: it is taken as it
\* comes, whatever the days of its bars, their order and their prices, and
\* whether or not the range ends before it starts.  The answers hold the bars
\* of the first and the last day of the range (of the first day of the
\* calendar when a string names no day), these two bars newest first, a bar of
\* the day before the range, and a bar whose high is below its low.
PriceResponses(start_date, end_date) ==
    LET lo == IF ParseTimestamp(start_date) = -1 THEN FirstDay
              ELSE ParseTimestamp(start_date)
        hi == IF ParseTimestamp(end_date) = -1 THEN FirstDay
              ELSE ParseTimestamp(end_date)
    IN  { Raises("ConnectionError"),
          Returns(EmptyDataFrame),
          Returns(NoRows(price_column_mapping)),
          Returns(TableOf(<<PriceRow(lo)>>)),
          Returns(TableOf(Bars(lo, hi, PriceRow(lo), PriceRow(hi)))),
          Returns(TableOf(Bars(lo, hi, PriceRowHL(lo, "2", "1"),
                               PriceRowHL(hi, "3", "2")))),
          Returns(TableOf(<<PriceRow(hi), PriceRow(lo)>>)),
          Returns(TableOf(<<PriceRow(lo - 1)>>)),
          Returns(TableOf(<<PriceRowHL(lo, "1", "2")>>)),
          Returns(TableOf(<<[NumberedRow(price_column_mapping, "riqi",
                                         Join(strftime_Y_m_d(lo)))
                                 EXCEPT !["zuigao"] = "9"]>>)),
          Returns(TableOf(<<WithExtra(PriceRow(lo))>>)),
          Returns(TableOf(<<Without(PriceRow(lo), "zuidi")>>)) }

\* result['date'] = pd.to_datetime(result['date'])
to_datetime(df) ==
    [columns |-> df.columns,
     rows    |-> [i \in 1..Len(df.rows) |->
                     [c \in DOMAIN df.rows[i] |->
                         IF c = "date" THEN df.rows[i][c] \o " 00:00:00"
                         ELSE df.rows[i][c]]]]

\* A mutant of DatesAccepted: only start_date is checked.
DatesAccepted_StartOnly(start_date, end_date) == validate_date_format(start_date)

\* The condition of the first statement: both dates pass the validator.
DatesAccepted(start_date, end_date) ==
    ~(~validate_date_format(start_date) \/ ~validate_date_format(end_date))

\* The method after its date check, once the source has answered.
get_historical_stockprice_data(resp) ==
    IF resp.kind = "raise" THEN [raised |-> resp.exc, records |-> <<>>]
    ELSE LET renamed == rename(resp.df, price_column_mapping)
         IN  IF "date" \notin renamed.columns
             THEN [raised |-> "KeyError", records |-> <<>>]
             ELSE apply_model_dump(to_datetime(renamed), StockPricedataFields,
                                   StockPricedataFields)

\* The date strings a caller may pass: days as YYYYMMDD, a day as YYYY-MM-DD,
\* seven digits, and eight characters that are not all digits.
HistDates ==
    {strftime_Ymd(o) : o \in Days}
        \cup {strftime_Y_m_d(FirstDay), SubSeq(strftime_Ymd(FirstDay), 1, 7), MalformedDate}

\* The tool get_historical_stockprice_data.
GetHistoricalStockpriceData ==
    /\ pc = "idle"
    /\ \E stock_code \in StockCodes, start_date \in HistDates, end_date \in HistDates :
          LET c == [tool |-> "get_historical_stockprice_data",
                    args |-> [stock_code |-> stock_code, start_date |-> start_date,
                              end_date |-> end_date, period |-> "daily", adjust |-> ""]]
          IN  /\ Asked(c)
              /\ IF ~DatesAccepted(start_date, end_date)
                 THEN Finish(c, <<>>, "ValueError", <<>>)
                 ELSE \E resp \in Answers("stock_zh_a_hist", c.args,
                                          PriceResponses(start_date, end_date)) :
                         LET out == get_historical_stockprice_data(resp)
                         IN  Finish(c, <<[api |-> "stock_zh_a_hist", arg |-> c.args,
                                          resp |-> resp]>>,
                                    out.raised, out.records)

(***************************************************************************)
(* get_stock_financial_abstract                                            *)
(***************************************************************************)
\* column_mapping of get_stock_financial_abstract.  The keys are, in order:
\* 报告期, 净利润, 净利润同比增长率, 扣非净利润, 扣非净利润同比增长率, 营业总收入,
\* 营业总收入同比增长率, 基本每股收益, 每股净资产, 每股资本公积金, 每股未分配利润,
\* 每股经营现金流, 销售净利率, 销售毛利率, 净资产收益率, 净资产收益率-摊薄, 营业周期,
\* 存货周转率, 存货周转天数, 应收账款周转天数, 流动比率, 速动比率, 保守速动比率,
\* 产权比率, 资产负债率.
abstract_column_mapping ==
    << <<"baogaoqi", "reporting_period">>,
       <<"jinglirun", "net_profit">>,
       <<"jingliruntongbizengzhanglv", "net_profit_growth_rate">>,
       <<"koufeijinglirun", "non_recurring_net_profit">>,
       <<"koufeijingliruntongbizengzhanglv", "non_recurring_net_profit_growth_rate">>,
       <<"yingyezongshouru", "total_operating_revenue">>,
       <<"yingyezongshourutongbizengzhanglv", "total_operating_revenue_growth_rate">>,
       <<"jibenmeigushouyi", "basic_earnings_per_share">>,
       <<"meigujingzichan", "net_asset_per_share">>,
       <<"meiguzibengongjijin", "capital_reserve_fund_per_share">>,
       <<"meiguweifenpeilirun", "undistributed_profit_per_share">>,
       <<"meigujingyingxianjinliu", "operating_cash_flow_per_share">>,
       <<"xiaoshoujinglilv", "net_profit_margin">>,
       <<"xiaoshoumaolilv", "gross_profit_margin">>,
       <<"jingzichanshouyilv", "return_on_equity_of_roe">>,
       <<"jingzichanshouyilv_tanbo", "diluted_return_on_equity_of_roe">>,
       <<"yingyezhouqi", "operating_cycle">>,
       <<"cunhuozhouzhuanlv", "inventory_turnover_ratio">>,
       <<"cunhuozhouzhuantianshu", "days_inventory_outstanding">>,
       <<"yingshouzhangkuanzhouzhuantianshu", "days_sales_outstanding">>,
       <<"liudongbilv", "current_ratio">>,
       <<"sudongbilv", "quick_ratio">>,
       <<"baoshousudongbilv", "conservative_quick_ratio">>,
       <<"chanquanbilv", "debt_to_equity_ratio">>,
       <<"zichanfuzhailv", "asset_to_liability_ratio">> >>

FinancialAbstractFields == MapValues(abstract_column_mapping)

\* FinancialAbstract: the metrics are optional, the reporting period is not.
FinancialAbstractRequired == {"reporting_period"}

AbstractRow(period) == FullRow(abstract_column_mapping, "baogaoqi", period)

\* What ak.stock_financial_abstract_ths(...) may answer.
AbstractResponses ==
    { Raises("ConnectionError"),
      Returns(NoRows(abstract_column_mapping)),
      Returns(TableOf(<<AbstractRow("2023-03-31")>>)),
      Returns(TableOf(<<AbstractRow("2022-12-31"), AbstractRow("2023-03-31")>>)),
      Returns(TableOf(<<NumberedRow(abstract_column_mapping, "baogaoqi", "2023-03-31")>>)),
      Returns(TableOf(<<WithExtra(AbstractRow("2023-03-31"))>>)),
      Returns(TableOf(<<Without(AbstractRow("2023-03-31"), "baogaoqi")>>)) }

Indicators == {"by_report", "by_year", "by_quarter"}

\* The method once the source has answered.
get_stock_financial_abstract(resp) ==
    IF resp.kind = "raise" THEN [raised |-> resp.exc, records |-> <<>>]
    ELSE apply_model_dump(rename(resp.df, abstract_column_mapping),
                          FinancialAbstractFields, FinancialAbstractRequired)

\* The tool get_stock_financial_abstract.
GetStockFinancialAbstract ==
    /\ pc = "idle"
    /\ \E stock_code \in StockCodes, indicator \in Indicators :
          LET c == [tool |-> "get_stock_financial_abstract",
                    args |-> [stock_code |-> stock_code, indicator |-> indicator]]
          IN  /\ Asked(c)
              /\ \E resp \in Answers("stock_financial_abstract_ths", c.args,
                                      AbstractResponses) :
                    LET out == get_stock_financial_abstract(resp)
                    IN  Finish(c, <<[api |-> "stock_financial_abstract_ths",
                                     arg |-> c.args, resp |-> resp]>>,
                               out.raised, out.records)

(***************************************************************************)
(* get_stock_fhps_detail                                                   *)
(***************************************************************************)
\* column_mapping of get_stock_fhps_detail.  The keys are, in order:
\* 报告期, 业绩披露日期, 送转股份-送转总比例, 送转股份-送股比例, 送转股份-转股比例,
\* 现金分红-现金分红比例, 现金分红-现金分红比例描述, 现金分红-股息率, 每股收益,
\* 每股净资产, 每股公积金, 每股未分配利润, 净利润同比增长, 总股本, 预案公告日,
\* 股权登记日, 除权除息日, 方案进度, 最新公告日期.
fhps_column_mapping ==
    << <<"baogaoqi", "reporting_period">>,
       <<"yejipiluriqi", "earnings_disclosure_date">>,
       <<"songzhuangufen_songzhuanzongbili", "total_share_conversion_ratio">>,
       <<"songzhuangufen_songgubili", "bonus_share_ratio">>,
       <<"songzhuangufen_zhuangubili", "capitalization_ratio">>,
       <<"xianjinfenhong_xianjinfenhongbili", "cash_dividend_payout_ratio">>,
       <<"xianjinfenhong_xianjinfenhongbilimiaoshu", "cash_dividend_payout_ratio_description">>,
       <<"xianjinfenhong_guxilv", "dividend_yield">>,
       <<"meigushouyi", "earnings_per_share">>,
       <<"meigujingzichan", "net_asset_value_per_share">>,
       <<"meigugongjijin", "surplus_reserve_fund_per_share">>,
       <<"meiguweifenpeilirun", "undistributed_profit_per_share">>,
       <<"jingliruntongbizengzhang", "net_profit_growth_rate">>,
       <<"zongguben", "total_shares_outstanding">>,
       <<"yuangonggaori", "preliminary_plan_announcement_date">>,
       <<"guquandengjiri", "record_date">>,
       <<"chuquanchuxiri", "ex_dividend_date">>,
       <<"fanganjindu", "proposal_progress">>,
       <<"zuixingonggaoriqi", "latest_announcement_date">> >>

FhpsDetailFields == MapValues(fhps_column_mapping)

\* FhpsDetail: the reporting period is required.
FhpsDetailRequired == {"reporting_period"}

FhpsRow(period) == FullRow(fhps_column_mapping, "baogaoqi", period)

\* What ak.stock_fhps_detail_em(...) may answer.
FhpsResponses ==
    { Raises("ConnectionError"),
      Returns(NoRows(fhps_column_mapping)),
      Returns(TableOf(<<FhpsRow("2022-12-31")>>)),
      Returns(TableOf(<<FhpsRow("2021-12-31"), FhpsRow("2022-12-31")>>)),
      Returns(TableOf(<<NumberedRow(fhps_column_mapping, "baogaoqi", "2022-12-31")>>)),
      Returns(TableOf(<<WithExtra(FhpsRow("2022-12-31"))>>)),
      Returns(TableOf(<<Without(FhpsRow("2022-12-31"), "baogaoqi")>>)) }

\* A mutant of get_stock_fhps_detail: an error of the source is caught and
\* nothing is returned in its place.
get_stock_fhps_detail_Swallow(resp) ==
    IF resp.kind = "raise" THEN [raised |-> "", records |-> <<>>]
    ELSE apply_model_dump(rename(resp.df, fhps_column_mapping),
                          FhpsDetailFields, FhpsDetailRequired)

\* The method once the source has answered.
get_stock_fhps_detail(resp) ==
    IF resp.kind = "raise" THEN [raised |-> resp.exc, records |-> <<>>]
    ELSE apply_model_dump(rename(resp.df, fhps_column_mapping),
                          FhpsDetailFields, FhpsDetailRequired)

\* The tool get_stock_fhps_detail.
GetStockFhpsDetail ==
    /\ pc = "idle"
    /\ \E stock_code \in StockCodes :
          LET c == [tool |-> "get_stock_fhps_detail",
                    args |-> [stock_code |-> stock_code]]
          IN  /\ Asked(c)
              /\ \E resp \in Answers("stock_fhps_detail_em", c.args, FhpsResponses) :
                    LET out == get_stock_fhps_detail(resp)
                    IN  Finish(c, <<[api |-> "stock_fhps_detail_em", arg |-> c.args,
                                     resp |-> resp]>>,
                               out.raised, out.records)

(***************************************************************************)
(* The tools without a query operation behind them, and the news tools.    *)
(***************************************************************************)
\* datetime.today()
Today == Ordinal(2023, 5, 1)

\* The tool get_today_date.
GetTodayDate ==
    /\ pc = "idle"
    /\ Finish([tool |-> "get_today_date", args |-> <<>>], <<>>, "",
              <<strftime_Y_m_d(Today)>>)

\* The operations StocksCommonMetrics defines.
StocksCommonMetricsMethods ==
    { "get_stock_code", "get_stock_zygc_em", "get_historical_stockprice_data",
      "get_stock_financial_abstract", "get_stock_margin_detail",
      "get_stock_fhps_detail" }

\* The tool get_stock_business_structure: it calls
\* stocks_common_metrics.get_stock_business_structure, and the attribute
\* lookup raises when the class defines no such operation.
GetStockBusinessStructure ==
    /\ pc = "idle"
    /\ \E stock_code \in StockCodes :
          Finish([tool |-> "get_stock_business_structure",
                  args |-> [stock_code |-> stock_code]],
                 <<>>,
                 IF "get_stock_business_structure" \in StocksCommonMetricsMethods
                 THEN "" ELSE "AttributeError",
                 <<>>)

\* An argument the caller leaves out (None).
None == <<>>

\* The dates a caller of the news tools may pass, as YYYY-MM-DD, or none.
NewsDates == {None, strftime_Y_m_d(Today - 20), strftime_Y_m_d(Today - 10)}

\* News_Report (utils/news_report.py): the range a query covers, from the
\* start_date and end_date it is given: one week before today, and today,
\* where one is absent.
NewsRange(start_date, end_date) ==
    [start_date |-> IF start_date = None THEN strftime_Y_m_d(Today - 7) ELSE start_date,
     end_date   |-> IF end_date = None THEN strftime_Y_m_d(Today) ELSE end_date]

NewsItem(title) == [c \in {"title", "content", "publish_time", "url"} |->
                       IF c = "title" THEN title ELSE "1"]

\* What the news source may answer.
NewsResponses ==
    { Raises("ConnectionError"),
      Returns(EmptyDataFrame),
      Returns(TableOf(<<NewsItem("t1"), NewsItem("t2")>>)) }

\* The tool stock_news: news_report.stock_news(stock_code) is called with the
\* stock code alone.
StockNews ==
    /\ pc = "idle"
    /\ \E stock_code \in StockCodes, start_date \in NewsDates, end_date \in NewsDates,
          resp \in NewsResponses :
          LET c == [tool |-> "stock_news",
                    args |-> [stock_code |-> stock_code, start_date |-> start_date,
                              end_date |-> end_date]]
          IN  Finish(c,
                     <<[api |-> "news_report.stock_news",
                        arg |-> NewsRange(None, None), resp |-> resp]>>,
                     resp.exc, resp.df.rows)

\* The tool financial_news: news_report.financial_news(start_date, end_date).
FinancialNews ==
    /\ pc = "idle"
    /\ \E start_date \in NewsDates, end_date \in NewsDates, resp \in NewsResponses :
          LET c == [tool |-> "financial_news",
                    args |-> [start_date |-> start_date, end_date |-> end_date]]
          IN  Finish(c,
                     <<[api |-> "news_report.financial_news",
                        arg |-> NewsRange(start_date, end_date), resp |-> resp]>>,
                     resp.exc, resp.df.rows)

\* The server hands the outcome to the caller and waits for the next call;
\* nothing of the call is kept.
Respond ==
    /\ pc = "done"
    /\ pc' = "idle"
    /\ call' = NoCall
    /\ outcome' = "none"
    /\ error' = ""
    /\ result' = <<>>
    /\ fetches' = <<>>
    /\ todo' = <<>>
    /\ all_filtered_df' = EmptyDataFrame
    /\ source' = {}
    /\ previous' = NoPrevious

\* The caller takes the answer, keeps the call and the answer, and is about to
\* ask the same again.  The server is left as the call left it, and the
\* source goes on answering as it did.
RespondAndKeep ==
    /\ pc = "done"
    /\ previous = NoPrevious
    /\ call.tool \in {"get_stock_code", "get_historical_stockprice_data",
                      "get_stock_financial_abstract", "get_stock_margin_detail",
                      "get_stock_fhps_detail"}
    /\ previous' = [call |-> call, outcome |-> outcome, error |-> error,
                    result |-> result]
    /\ pc' = "idle"
    /\ call' = NoCall
    /\ outcome' = "none"
    /\ error' = ""
    /\ result' = <<>>
    /\ fetches' = <<>>
    /\ todo' = <<>>
    /\ UNCHANGED <<all_filtered_df, source>>

Next ==
    \/ Respond
    \/ GetTodayDate
    \/ GetStockCode
    \/ GetStockBusinessStructure
    \/ GetHistoricalStockpriceData
    \/ GetStockFinancialAbstract
    \/ MarginCall
    \/ MarginFetch
    \/ MarginReturn
    \/ GetStockFhpsDetail
    \/ StockNews
    \/ FinancialNews

Spec == Init /\ [][Next]_vars

\* The query operations, each called twice in a row with the same parameters
\* against a deterministic source.
NextTwice ==
    \/ RespondAndKeep
    \/ (previous # NoPrevious /\ Respond)
    \/ GetStockCode
    \/ GetHistoricalStockpriceData
    \/ GetStockFinancialAbstract
    \/ MarginCall
    \/ MarginFetch
    \/ MarginReturn
    \/ GetStockFhpsDetail

SpecTwice == Init /\ [][NextTwice]_vars

(***************************************************************************)
(* Claims about get_stock_margin_detail.                                   *)
(***************************************************************************)
\* A get_stock_margin_detail call whose date strings pandas parsed has ended.
MarginDone ==
    /\ pc = "done"
    /\ call.tool = "get_stock_margin_detail"
    /\ ParseTimestamp(call.args.start_date) # -1
    /\ ParseTimestamp(call.args.end_date) # -1

\* The dates of the call's range, as the loop formats them.
MarginRange ==
    LET r == date_range(call.args.start_date, call.args.end_date, call.args.freq)
    IN  [i \in 1..Len(r) |-> strftime_Ymd(r[i])]

\* The i-th date's fetch raised, or the processing of its table did.
DateFailed(i) ==
    \/ fetches[i].resp.kind = "raise"
    \/ /\ fetches[i].resp.kind = "table"
       /\ ~IsEmpty(fetches[i].resp.df)
       /\ "biaodizhengquandaima" \notin fetches[i].resp.df.columns

\* C1: in get_stock_margin_detail an exception raised by one date's fetch, or
\* by the processing of that date's result, never reaches the caller and never
\* stops the loop: the call ends with a result, and every date of the range
\* has been fetched.
C1_DateErrorNeverAborts ==
    MarginDone =>
        /\ outcome = "ok"
        /\ error = ""
        /\ [i \in 1..Len(fetches) |-> fetches[i].arg] = MarginRange

\* C1's case: the first date failed, later dates were fetched and the call
\* returned rows.
C1_Witness ==
    /\ MarginDone
    /\ Len(fetches) >= 3
    /\ DateFailed(1)
    /\ fetches[2].resp.kind = "raise"
    /\ outcome = "ok"
    /\ result # <<>>

\* The identity of a row of the source, and of a returned record.
SourceKey(row) == <<row["xinyongjiaoyiriqi"], row["biaodizhengquandaima"], row["rongziyue"]>>

RecordKey(rec) == <<rec["trading_date"], rec["target_security_code"], rec["margin_balance"]>>

\* The rows for stock_code in the answers of the fetch log, in log order.
RECURSIVE RowsFor(_, _)
RowsFor(log, stock_code) ==
    IF log = <<>> THEN <<>>
    ELSE LET resp == Head(log).resp
             rows == IF resp.kind = "table"
                     THEN SelectSeq(resp.df.rows,
                              LAMBDA r : /\ "biaodizhengquandaima" \in DOMAIN r
                                         /\ r["biaodizhengquandaima"] = stock_code)
                     ELSE <<>>
         IN  [i \in 1..Len(rows) |-> SourceKey(rows[i])] \o RowsFor(Tail(log), stock_code)

\* C2: whatever each date's fetch did (error, empty result, no row for the
\* code, rows for the code), get_stock_margin_detail returns exactly the rows
\* for the requested stock_code from the dates whose fetch succeeded, in
\* ascending date order: nothing from failed or empty dates, nothing lost.
C2_ExactlySuccessfulRows ==
    MarginDone =>
        /\ [i \in 1..Len(result) |-> RecordKey(result[i])]
               = RowsFor(fetches, call.args.stock_code)
        /\ \A i \in 1..Len(fetches), j \in 1..Len(fetches) :
               i < j => ParseTimestamp(fetches[i].arg) < ParseTimestamp(fetches[j].arg)

\* C2's case: of three dates one failed and two returned rows for the code,
\* the last of them several.
C2_Witness ==
    /\ MarginDone
    /\ Len(fetches) = 3
    /\ fetches[1].resp.kind = "table"
    /\ fetches[2].resp.kind = "raise"
    /\ Len(result) = 3
    /\ result[1]["trading_date"] # result[2]["trading_date"]
    /\ result[2]["margin_balance"] = "2"

\* C4: every record get_stock_margin_detail returns has target_security_code
\* equal to the stock_code of the call, whatever rows the source returned.
C4_OnlyRequestedCode ==
    MarginDone =>
        \A i \in 1..Len(result) :
            result[i]["target_security_code"] = call.args.stock_code

\* C4's case: a fetched table held a row of another security, and records
\* were returned.
C4_Witness ==
    /\ MarginDone
    /\ result # <<>>
    /\ \E i \in 1..Len(fetches) :
          /\ fetches[i].resp.kind = "table"
          /\ \E k \in 1..Len(fetches[i].resp.df.rows) :
                /\ "biaodizhengquandaima" \in DOMAIN fetches[i].resp.df.rows[k]
                /\ fetches[i].resp.df.rows[k]["biaodizhengquandaima"] # call.args.stock_code

(***************************************************************************)
(* Claims about the other operations.                                      *)
(***************************************************************************)
\* The query operations of StocksCommonMetrics that the tools reach.
QueryOperations ==
    { "get_stock_code", "get_historical_stockprice_data",
      "get_stock_financial_abstract", "get_stock_margin_detail",
      "get_stock_fhps_detail" }

\* A string of exactly eight decimal digits.
IsYYYYMMDD(s) ==
    /\ Len(s) = 8
    /\ \A i \in 1..Len(s) : s[i] \in {"0", "1", "2", "3", "4", "5", "6", "7", "8", "9"}

\* C3: when start_date or end_date is not an 8-digit YYYYMMDD string,
\* get_historical_stockprice_data ends with the input-validation error
\* (ValueError) and the external source was not called in that invocation.
C3_BadDateRejectedBeforeFetch ==
    ( /\ pc = "done"
      /\ call.tool = "get_historical_stockprice_data"
      /\ ~IsYYYYMMDD(call.args.start_date) \/ ~IsYYYYMMDD(call.args.end_date) )
    => /\ outcome = "error"
       /\ error = "ValueError"
       /\ fetches = <<>>

\* C3's case: a well-formed start_date with end_date given as YYYY-MM-DD was
\* rejected without a fetch.
C3_Witness ==
    /\ pc = "done"
    /\ call.tool = "get_historical_stockprice_data"
    /\ IsYYYYMMDD(call.args.start_date)
    /\ call.args.end_date = strftime_Y_m_d(FirstDay)
    /\ error = "ValueError"
    /\ fetches = <<>>

\* C5: whenever the external source answers with an empty table, the query
\* operation (any of the five) returns an empty sequence and raises no error.
C5_EmptyTableGivesEmptyResult ==
    ( /\ pc = "done"
      /\ call.tool \in QueryOperations
      /\ fetches # <<>>
      /\ \A i \in 1..Len(fetches) :
            fetches[i].resp.kind = "table" /\ fetches[i].resp.df.rows = <<>> )
    => /\ outcome = "ok"
       /\ result = <<>>

\* C6: stock_news and financial_news query the news source over the range the
\* caller gives: a supplied start_date and end_date are the range used, and
\* with both absent the range is one week before today to today.
C6_NewsRangeIsCallersRange ==
    ( /\ pc = "done"
      /\ call.tool \in {"stock_news", "financial_news"} )
    => /\ (call.args.start_date # None /\ call.args.end_date # None)
             => fetches[1].arg = [start_date |-> call.args.start_date,
                                  end_date |-> call.args.end_date]
       /\ (call.args.start_date = None /\ call.args.end_date = None)
             => fetches[1].arg = [start_date |-> strftime_Y_m_d(Today - 7),
                                  end_date |-> strftime_Y_m_d(Today)]

\* The declared canonical field names of a query operation's records.
CanonicalFields(tool) ==
    IF tool = "get_stock_code" THEN {"name", "stock_code"}
    ELSE IF tool = "get_historical_stockprice_data" THEN MapValues(price_column_mapping)
    ELSE IF tool = "get_stock_financial_abstract" THEN MapValues(abstract_column_mapping)
    ELSE IF tool = "get_stock_margin_detail" THEN MapValues(margin_column_mapping)
    ELSE MapValues(fhps_column_mapping)

\* C7: the key set of every record a query operation returns is exactly the
\* canonical field names of its category; a column of the source that the
\* mapping does not name never appears.
C7_KeysAreCanonical ==
    ( /\ pc = "done"
      /\ outcome = "ok"
      /\ call.tool \in QueryOperations )
    => \A i \in 1..Len(result) : DOMAIN result[i] = CanonicalFields(call.tool)

\* A word of the language of a regular expression without anchors.
RECURSIVE FullMatch(_, _)
FullMatch(core, w) ==
    IF core = <<>> THEN w = <<>>
    ELSE IF Len(core) >= 2 /\ core[2] = "*"
         THEN \E k \in 0..Len(w) :
                 /\ \A i \in 1..k : core[1] \in {".", w[i]}
                 /\ FullMatch(SubSeq(core, 3, Len(core)), SubSeq(w, k + 1, Len(w)))
    ELSE /\ w # <<>>
         /\ core[1] \in {".", w[1]}
         /\ FullMatch(Tail(core), Tail(w))

\* Some stretch t[i..j] of t is a word of p's language, at the start of t when
\* p begins with "^" and at its end when p ends with "$".
SearchSucceeds(p, t) ==
    LET atStart == p # <<>> /\ p[1] = "^"
        atEnd   == p # <<>> /\ p[Len(p)] = "$"
        core    == SubSeq(p, IF atStart THEN 2 ELSE 1, IF atEnd THEN Len(p) - 1 ELSE Len(p))
    IN  \E i \in 1..(Len(t) + 1) :
           \E j \in (i - 1)..Len(t) :
              /\ atStart => i = 1
              /\ atEnd => j = Len(t)
              /\ FullMatch(core, SubSeq(t, i, j))

\* C8: get_stock_code(name) returns a record for a company of the source if
\* and only if the regular expression name is found in the company's name, in
\* the order of the source; the empty pattern returns every company.
C8_ExactlyMatchingCompanies ==
    ( /\ pc = "done"
      /\ call.tool = "get_stock_code"
      /\ outcome = "ok" )
    => LET rows  == fetches[1].resp.df.rows
           found == SelectSeq(rows, LAMBDA r : SearchSucceeds(call.args.name, r["name"]))
       IN  /\ result = [i \in 1..Len(found) |->
                           [k \in {"name", "stock_code"} |->
                               IF k = "name" THEN found[i]["name"] ELSE found[i]["code"]]]
           /\ call.args.name = <<>> => Len(result) = Len(rows)

\* C8's case: of three companies the pattern "a" found the two whose name
\* holds an "a", one of them not at the start.
C8_Witness ==
    /\ pc = "done"
    /\ call.tool = "get_stock_code"
    /\ outcome = "ok"
    /\ call.args.name = <<"a">>
    /\ Len(fetches[1].resp.df.rows) = 3
    /\ Len(result) = 2
    /\ result[2]["name"] = <<"b", "a">>

\* C9: a malformed regular expression as name ends get_stock_code in an
\* input-validation error for that call, the operation not attempted: the
\* call ends in an error and the external source was not called.
C9_MalformedPatternRejected ==
    ( /\ pc = "done"
      /\ call.tool = "get_stock_code"
      /\ re_error(call.args.name) )
    => /\ outcome = "error"
       /\ fetches = <<>>

\* C10: in get_stock_code, get_historical_stockprice_data,
\* get_stock_financial_abstract and get_stock_fhps_detail an error raised by
\* the external source ends the call with that error: nothing is returned in
\* its place.
C10_SourceErrorReachesCaller ==
    ( /\ pc = "done"
      /\ call.tool \in QueryOperations \ {"get_stock_margin_detail"}
      /\ fetches # <<>>
      /\ fetches[1].resp.kind = "raise" )
    => /\ outcome = "error"
       /\ error = fetches[1].resp.exc
       /\ result = <<>>

\* C10's case: the source raised in get_stock_fhps_detail and the call ended
\* with that error.
C10_Witness ==
    /\ pc = "done"
    /\ call.tool = "get_stock_fhps_detail"
    /\ fetches # <<>>
    /\ fetches[1].resp.kind = "raise"
    /\ outcome = "error"
    /\ error = "ConnectionError"

(***************************************************************************)
(* Claims about the records of get_historical_stockprice_data.             *)
(***************************************************************************)
\* A get_historical_stockprice_data call with start_date <= end_date, both
\* well formed, has returned records.
HistReturned ==
    /\ pc = "done"
    /\ call.tool = "get_historical_stockprice_data"
    /\ outcome = "ok"
    /\ ParseTimestamp(call.args.start_date) # -1
    /\ ParseTimestamp(call.args.start_date) <= ParseTimestamp(call.args.end_date)

\* The days a date value of the model may name.
KnownDays == (FirstDay - 1)..(FirstDay + MaxDays)

\* The day a date of the source (YYYY-MM-DD) names.
DayOfSourceDate(v) == CHOOSE o \in KnownDays : Join(strftime_Y_m_d(o)) = v

\* The day a date of a returned record (a timestamp) names.
DayOfTimestamp(v) == CHOOSE o \in KnownDays : Join(strftime_Y_m_d(o)) \o " 00:00:00" = v

\* The number a one-digit price stands for.
PriceVal(v) == CHOOSE n \in 0..9 : Digits[n + 1] = v

\* Dates within lo..hi, ascending, and high >= low in every row; days, highs
\* and lows are the rows' days and prices in order.
WellFormedBars(days, highs, lows, lo, hi) ==
    /\ \A i \in 1..Len(days) : lo <= days[i] /\ days[i] <= hi
    /\ \A i \in 1..Len(days), j \in 1..Len(days) : i < j => days[i] <= days[j]
    /\ \A i \in 1..Len(days) : highs[i] >= lows[i]

RecordsWellFormed ==
    WellFormedBars([i \in 1..Len(result) |-> DayOfTimestamp(result[i]["date"])],
                   [i \in 1..Len(result) |-> PriceVal(result[i]["high"])],
                   [i \in 1..Len(result) |-> PriceVal(result[i]["low"])],
                   ParseTimestamp(call.args.start_date),
                   ParseTimestamp(call.args.end_date))

CalledTwice ==
    /\ pc = "done"
    /\ previous # NoPrevious
    /\ call.tool = previous.call.tool
    /\ call.args = previous.call.args

\* C12: a query operation called twice in a row with identical parameters
\* against a deterministic source ends the same way and returns the same
\* sequence of records both times; nothing the first call left behind (in the
\* instance or in the margin accumulator) changes the second, also after
\* per-date fetch errors.
C12_SameCallSameResult ==
    CalledTwice =>
        /\ outcome = previous.outcome
        /\ error = previous.error
        /\ result = previous.result

\* C12's case: get_stock_margin_detail was called twice; one date's fetch
\* raised, another gave a row, and the first call returned records.
C12_Witness ==
    /\ CalledTwice
    /\ call.tool = "get_stock_margin_detail"
    /\ previous.result # <<>>
    /\ \E i \in 1..Len(fetches) : fetches[i].resp.kind = "raise"

(***************************************************************************)
(* Claims about the loop of get_stock_margin_detail.                       *)
(***************************************************************************)
\* get_stock_margin_detail is in its loop or has ended, its dates well formed.
MarginRunning ==
    /\ pc \in {"margin", "done"}
    /\ call.tool = "get_stock_margin_detail"
    /\ ParseTimestamp(call.args.start_date) # -1
    /\ ParseTimestamp(call.args.end_date) # -1

\* The days of [start_date, end_date] at step freq: every day ("D") or every
\* Sunday ("W").
EnumeratedDays ==
    {o \in ParseTimestamp(call.args.start_date)..ParseTimestamp(call.args.end_date) :
        call.args.freq = "D" \/ Weekday(o) = 6}

\* The days fetched so far, in fetch order.
FetchedDays == [i \in 1..Len(fetches) |-> ParseTimestamp(fetches[i].arg)]

\* C13: get_stock_margin_detail issues exactly one fetch for each date of
\* [start_date, end_date] at step freq, in ascending order and never the same
\* date twice, whether a fetch fails or returns nothing; after the last date
\* the loop ends.
C13_OneFetchPerDateAscending ==
    MarginRunning =>
        /\ \A i \in 1..Len(fetches) :
              /\ fetches[i].api = "stock_margin_detail_sse"
              /\ FetchedDays[i] \in EnumeratedDays
        /\ \A i \in 1..Len(fetches), j \in 1..Len(fetches) :
              i < j => FetchedDays[i] < FetchedDays[j]
        /\ \A o \in EnumeratedDays :
              \/ \E i \in 1..Len(fetches) : FetchedDays[i] = o
              \/ \E k \in 1..Len(todo) :
                    /\ todo[k] = o
                    /\ \A i \in 1..Len(fetches) : FetchedDays[i] < o
        /\ Len(fetches) + Len(todo) = Cardinality(EnumeratedDays)
        /\ pc = "done" => todo = <<>>

\* C13's case: a range of three dates, of which the first fetch raised and the
\* second returned nothing, was enumerated to its end.
C13_Witness ==
    /\ MarginRunning
    /\ pc = "done"
    /\ Len(fetches) = 3
    /\ fetches[1].resp.kind = "raise"
    /\ fetches[2].resp.kind = "none"

\* The answer to a date's fetch holds nothing for stock_code: the fetch
\* raised, returned None or an empty table, or a table without a row for the
\* code.
NothingFor(resp, stock_code) ==
    \/ resp.kind \in {"raise", "none"}
    \/ IsEmpty(resp.df)
    \/ /\ "biaodizhengquandaima" \in resp.df.columns
       /\ \A i \in 1..Len(resp.df.rows) :
             resp.df.rows[i]["biaodizhengquandaima"] # stock_code

\* The loop has just served one more date.
DateServed ==
    /\ pc = "margin"
    /\ call.tool = "get_stock_margin_detail"
    /\ Len(fetches') = Len(fetches) + 1

\* C14: in get_stock_margin_detail a date whose fetch raises, returns None or
\* an empty table, or returns no row for the requested stock_code leaves the
\* accumulator exactly as it was: the rows of earlier dates are neither
\* removed, reordered nor changed.
C14_NoDataLeavesAccumulator ==
    [][(DateServed /\ NothingFor(fetches'[Len(fetches')].resp, call.args.stock_code))
           => all_filtered_df' = all_filtered_df]_vars

\* C14's case: the first date gave rows for the code, the second a table
\* without a row for it and the third raised, and the accumulator still holds
\* the rows of the first date, in order.
C14_Witness ==
    /\ pc = "margin"
    /\ Len(fetches) = 3
    /\ ~NothingFor(fetches[1].resp, call.args.stock_code)
    /\ fetches[2].resp.kind = "table"
    /\ ~IsEmpty(fetches[2].resp.df)
    /\ NothingFor(fetches[2].resp, call.args.stock_code)
    /\ fetches[3].resp.kind = "raise"
    /\ all_filtered_df.rows # <<>>
    /\ [i \in 1..Len(all_filtered_df.rows) |-> RecordKey(all_filtered_df.rows[i])]
          = RowsFor(SubSeq(fetches, 1, 1), call.args.stock_code)

(***************************************************************************)
(* Claims about the tools of the server.                                   *)
(***************************************************************************)
\* C15: every registered tool delegates to an operation its collaborator
\* defines, so a call with well-formed arguments never fails on a missing
\* operation; in particular get_stock_business_structure resolves to a method
\* of StocksCommonMetrics.
C15_ToolsReachTheirOperation ==
    (pc = "done" /\ call.tool \in QueryOperations \cup {"get_stock_business_structure"})
        => /\ call.tool \in StocksCommonMetricsMethods
           /\ (error = "AttributeError" => fetches # <<>>)

(***************************************************************************)
(* Claims about the field mappings.                                        *)
(***************************************************************************)
\* No two source names of a mapping are the same, and no two canonical names.
Injective(column_mapping) ==
    \A i \in 1..Len(column_mapping), j \in 1..Len(column_mapping) :
        i # j => /\ column_mapping[i][1] # column_mapping[j][1]
                 /\ column_mapping[i][2] # column_mapping[j][2]

\* The mapping a method applies to the table of an external call.
MappingOf(api) ==
    IF api = "stock_zh_a_hist" THEN price_column_mapping
    ELSE IF api = "stock_financial_abstract_ths" THEN abstract_column_mapping
    ELSE IF api = "stock_margin_detail_sse" THEN margin_column_mapping
    ELSE fhps_column_mapping

MappedApis ==
    {"stock_zh_a_hist", "stock_financial_abstract_ths", "stock_margin_detail_sse",
     "stock_fhps_detail_em"}

\* The translated row has as many keys as the source row, and under each
\* canonical key the value the source row has under the source key.
Translates(column_mapping, row, translated) ==
    /\ Cardinality(DOMAIN translated) = Cardinality(DOMAIN row)
    /\ \A p \in 1..Len(column_mapping) :
          column_mapping[p][1] \in DOMAIN row
              => /\ column_mapping[p][2] \in DOMAIN translated
                 /\ translated[column_mapping[p][2]] = row[column_mapping[p][1]]

\* The rows for stock_code in the answers of the fetch log, in log order.
RECURSIVE MarginSourceRows(_, _)
MarginSourceRows(log, stock_code) ==
    IF log = <<>> THEN <<>>
    ELSE LET resp == Head(log).resp
         IN  (IF resp.kind = "table" /\ "biaodizhengquandaima" \in resp.df.columns
              THEN SelectSeq(resp.df.rows,
                             LAMBDA r : r["biaodizhengquandaima"] = stock_code)
              ELSE <<>>)
             \o MarginSourceRows(Tail(log), stock_code)

\* C16: each field mapping (price bar, financial abstract, margin detail,
\* dividend detail) is injective and value-preserving: no two source names map
\* to the same canonical name, so no column overwrites another on renaming,
\* and the value under each canonical key of a translated row is the value
\* under the corresponding source key.  Stated of the renaming of every table
\* fetched, and of the records get_stock_margin_detail returns.
C16_MappingsInjectiveValuePreserving ==
    /\ \A api \in MappedApis : Injective(MappingOf(api))
    /\ \A n \in 1..Len(fetches) :
          (fetches[n].api \in MappedApis /\ fetches[n].resp.kind = "table")
              => LET df == fetches[n].resp.df
                     translated == rename(df, MappingOf(fetches[n].api))
                 IN  /\ Len(translated.rows) = Len(df.rows)
                     /\ \A i \in 1..Len(df.rows) :
                           Translates(MappingOf(fetches[n].api), df.rows[i],
                                      translated.rows[i])
    /\ MarginDone
          => LET rows == MarginSourceRows(fetches, call.args.stock_code)
             IN  /\ Len(result) = Len(rows)
                 /\ \A i \in 1..Len(rows) :
                       \A p \in 1..Len(margin_column_mapping) :
                          margin_column_mapping[p][1] \in DOMAIN rows[i]
                             => result[i][margin_column_mapping[p][2]]
                                    = rows[i][margin_column_mapping[p][1]]

\* C16's case: get_stock_margin_detail returned the record of a source row
\* whose cells all differ, each value under its canonical key.
C16_Witness ==
    /\ MarginDone
    /\ Len(result) = 1
    /\ result[1]["margin_balance"] = "4"
    /\ result[1]["margin_buy_amount"] = "5"
    /\ result[1]["short_selling_repayment"] = "9"
    /\ Cardinality(DOMAIN result[1]) = Len(margin_column_mapping)

====
